---- MODULE Spec2Model ----
(***************************************************************************)
(* Model of backend/python-scripts/process_batch.py: the batch file        *)
(* processor (language detection, bounded read, vectorization, artifact    *)
(* write, batch summary, entry point and exit status).                     *)
(*                                                                         *)
(* A file's bytes are a sequence of units: "a", "b" (one-byte word         *)
(* characters), "sp" (a space), "e2" (a two-byte UTF-8 word character),    *)
(* "eur3" (a three-byte UTF-8 symbol) and "xFF" (a byte that is not valid  *)
(* UTF-8).  Decoded text is a sequence of characters; errors='replace'     *)
(* decodes "xFF" as the replacement character "uFFFD".                     *)
(* Time is counted in integer ticks of the wall clock.                     *)
(***************************************************************************)
EXTENDS Integers, Sequences, FiniteSets

\* ---------------------------------------------------------------- bounds
MaxFiles == 2
MaxRuns == 2
MaxFaults == 1
MaxTime == 1
NumSeeds == 2
MaxLen == 3
MaxSize == 2

\* ----------------------------------------------------- program constants
DefaultMaxSize == 1048576
HashBuckets == 10000
MaxFeatures == 100
MockVectorSize == 100

\* ------------------------------------------------------------- utilities
Min(a, b) == IF a < b THEN a ELSE b

Take(s, n) == SubSeq(s, 1, Min(n, Len(s)))

SeqsUpTo(S, n) == UNION {[1..k -> S] : k \in 0..n}

None == [none |-> TRUE]

\* ------------------------------------------------------------ text model
Units == {"a", "e2", "eur3", "xFF"}

ByteLen(u) == CASE u = "e2" -> 2 [] u = "eur3" -> 3 [] OTHER -> 1

DecodeUnit(u) == IF u = "xFF" THEN "uFFFD" ELSE u

Decode(bytes) == [i \in 1..Len(bytes) |-> DecodeUnit(bytes[i])]

RECURSIVE getsize(_)
getsize(bytes) == IF bytes = <<>> THEN 0 ELSE ByteLen(Head(bytes)) + getsize(Tail(bytes))

IsWord(c) == c \in {"a", "b", "e2"}

\* ------------------------------------------------------- the file system
Paths == {"d1/a.py", "d2/a.py", "missing.rs", "empty.js", "stop.MD", "locked.txt"}

NullEntry == "<null>"

Entries == Paths \cup {NullEntry}

IsStr(e) == e # NullEntry

Parts == [p \in Paths |->
    CASE p = "d1/a.py"    -> [dir |-> "d1", stem |-> "a", ext |-> ".py"]
      [] p = "d2/a.py"    -> [dir |-> "d2", stem |-> "a", ext |-> ".py"]
      [] p = "missing.rs" -> [dir |-> "", stem |-> "missing", ext |-> ".rs"]
      [] p = "empty.js"   -> [dir |-> "", stem |-> "empty", ext |-> ".js"]
      [] p = "stop.MD"    -> [dir |-> "", stem |-> "stop", ext |-> ".MD"]
      [] OTHER            -> [dir |-> "", stem |-> "locked", ext |-> ".txt"]]

FS == [p \in Paths |->
    CASE p = "d1/a.py"    -> [exists |-> TRUE, readable |-> TRUE,
                              bytes |-> <<"a", "b", "sp", "e2", "e2">>]
      [] p = "d2/a.py"    -> [exists |-> TRUE, readable |-> TRUE, bytes |-> <<"a", "b">>]
      [] p = "missing.rs" -> [exists |-> FALSE, readable |-> FALSE, bytes |-> <<>>]
      [] p = "empty.js"   -> [exists |-> TRUE, readable |-> TRUE, bytes |-> <<>>]
      [] p = "stop.MD"    -> [exists |-> TRUE, readable |-> TRUE, bytes |-> <<"a", "sp", "b">>]
      [] OTHER            -> [exists |-> TRUE, readable |-> FALSE, bytes |-> <<"a", "b">>]]

PathCode == [p \in Paths |->
    CASE p = "d1/a.py"    -> 4242
      [] p = "d2/a.py"    -> 9242
      [] p = "missing.rs" -> 1311
      [] p = "empty.js"   -> 2718
      [] p = "stop.MD"    -> 3141
      [] OTHER            -> 1618]

Seeds == 0..(NumSeeds - 1)

Times == 0..MaxTime

VARIABLES manifest, deps, seed, run, pc, start_time, idx, processed_count,
          failed_count, languages_detected, results, calls, result, stdout,
          exitcode, outdir, names_before, raised, opens, faults, rd

vars == <<manifest, deps, seed, run, pc, start_time, idx, processed_count,
          failed_count, languages_detected, results, calls, result, stdout,
          exitcode, outdir, names_before, raised, opens, faults, rd>>

\* ------------------------------------------------------- detect_language
Lower(ext) == IF ext = ".MD" THEN ".md" ELSE ext

splitext(file_path) == <<<<Parts[file_path].dir, Parts[file_path].stem>>, Parts[file_path].ext>>

basename(file_path) == <<Parts[file_path].stem, Parts[file_path].ext>>

language_map ==
    [e \in {".js", ".jsx", ".ts", ".tsx", ".py", ".java", ".c", ".cpp", ".h", ".hpp",
            ".cs", ".go", ".rb", ".php", ".swift", ".kt", ".rs", ".html", ".css",
            ".scss", ".json", ".md", ".xml", ".yaml", ".yml", ".sh", ".bat", ".ps1"} |->
      CASE e = ".js" -> "javascript" [] e = ".jsx" -> "jsx" [] e = ".ts" -> "typescript"
        [] e = ".tsx" -> "tsx" [] e = ".py" -> "python" [] e = ".java" -> "java"
        [] e = ".c" -> "c" [] e = ".cpp" -> "cpp" [] e = ".h" -> "c" [] e = ".hpp" -> "cpp"
        [] e = ".cs" -> "csharp" [] e = ".go" -> "go" [] e = ".rb" -> "ruby"
        [] e = ".php" -> "php" [] e = ".swift" -> "swift" [] e = ".kt" -> "kotlin"
        [] e = ".rs" -> "rust" [] e = ".html" -> "html" [] e = ".css" -> "css"
        [] e = ".scss" -> "scss" [] e = ".json" -> "json" [] e = ".md" -> "markdown"
        [] e = ".xml" -> "xml" [] e = ".yaml" -> "yaml" [] e = ".yml" -> "yaml"
        [] e = ".sh" -> "shell" [] e = ".bat" -> "batch" [] OTHER -> "powershell"]

detect_language(file_path) ==
    LET ext == Lower(splitext(file_path)[2])
    IN  IF ext \in DOMAIN language_map THEN language_map[ext] ELSE "unknown"

\* ----------------------------------------------------- read_file_content
\* f.read(n) on a text-mode file returns at most n characters of the decoded text.
TextRead(bytes, n) == Take(Decode(bytes), n)

read_file_content(f, max_size) ==
    IF ~f.readable THEN <<>>
    ELSE IF getsize(f.bytes) > max_size THEN TextRead(f.bytes, max_size)
    ELSE Decode(f.bytes)

\* ----------------------------------------------------- vectorize_content
\* TfidfVectorizer's default token pattern keeps runs of two or more word characters.
Tokens(content) ==
    {SubSeq(content, i, j) : <<i, j>> \in
        {<<a, b>> \in (1..Len(content)) \X (1..Len(content)) :
            /\ b >= a + 1
            /\ \A k \in a..b : IsWord(content[k])
            /\ (a = 1 \/ ~IsWord(content[a - 1]))
            /\ (b = Len(content) \/ ~IsWord(content[b + 1]))}}

vectorize_content(content, available) ==
    IF ~available
    THEN [success |-> TRUE, vector_size |-> MockVectorSize, vector_type |-> "mock"]
    ELSE IF Tokens(content) = {}
    THEN [success |-> FALSE, error |-> <<"empty vocabulary">>]
    ELSE [success |-> TRUE,
          vector |-> Min(Cardinality(Tokens(content)), MaxFeatures),
          vector_size |-> Min(Cardinality(Tokens(content)), MaxFeatures),
          vector_type |-> "tfidf"]

\* ---------------------------------------------------------- process_file
\* hash() of a str is keyed by a per-process seed (PYTHONHASHSEED is random by default).
PyHash(s, file_path) == PathCode[file_path] * (s + 1) - s * 7919

output_filename(s, file_path) == <<PyHash(s, file_path) % HashBuckets, basename(file_path)>>

WriteFile(dir, name, data) ==
    [n \in (DOMAIN dir) \cup {name} |-> IF n = name THEN data ELSE dir[n]]

Truncated == [truncated |-> TRUE]

FaultKinds == {"none", "open", "dump"}

\* The outcome of process_file: the exception that escapes it ("" when none), the
\* value it returns, the output directory afterwards and whether it opened the
\* output file for writing.  fault is what the file system does to the write:
\* "open" makes open(output_filename, 'w') raise, "dump" makes json.dump raise
\* after the file was created or truncated.
Outcome(exc, ret, dir, opened) ==
    [raised |-> exc, ret |-> ret, dir |-> dir, opened |-> opened]

Failure(error) == [success |-> FALSE, error |-> error]

SaveVector(file_path, language, vector_result, dir, s, fault) ==
    LET name == output_filename(s, file_path)
        vector_data == [file |-> file_path, language |-> language,
                        vectorization |-> vector_result]
    IN  IF fault = "open"
        THEN Outcome("", Failure(<<"OSError: open">>), dir, FALSE)
        ELSE IF fault = "dump"
        THEN Outcome("", Failure(<<"OSError: write">>), WriteFile(dir, name, Truncated), TRUE)
        ELSE Outcome("", [success |-> TRUE, language |-> language, output_file |-> name],
                     WriteFile(dir, name, vector_data), TRUE)

process_file_saves_first(file_path, dir, s, available, fault) ==
    IF ~IsStr(file_path) THEN Outcome("TypeError", None, dir, FALSE)
    ELSE IF ~FS[file_path].exists
    THEN Outcome("", Failure(<<"File not found:", file_path>>), dir, FALSE)
    ELSE
      LET language == detect_language(file_path)
          content == read_file_content(FS[file_path], DefaultMaxSize)
          vector_result == vectorize_content(content, available)
          saved == SaveVector(file_path, language, vector_result, dir, s, fault)
      IN  IF content = <<>>
          THEN Outcome("", Failure(<<"Empty or unreadable file">>), dir, FALSE)
          ELSE IF ~vector_result.success
          THEN Outcome("", vector_result, saved.dir, saved.opened)
          ELSE saved

process_file(file_path, dir, s, available, fault) ==
    IF ~IsStr(file_path) THEN Outcome("TypeError", None, dir, FALSE)
    ELSE IF ~FS[file_path].exists
    THEN Outcome("", Failure(<<"File not found:", file_path>>), dir, FALSE)
    ELSE
      LET language == detect_language(file_path)
          content == read_file_content(FS[file_path], DefaultMaxSize)
          vector_result == vectorize_content(content, available)
      IN  IF content = <<>>
          THEN Outcome("", Failure(<<"Empty or unreadable file">>), dir, FALSE)
          ELSE IF ~vector_result.success
          THEN Outcome("", vector_result, dir, FALSE)
          ELSE SaveVector(file_path, language, vector_result, dir, s, fault)

\* Whether the fault can strike: only a call that reaches the write meets it.
ReachesWrite(file_path, available) ==
    /\ IsStr(file_path)
    /\ FS[file_path].exists
    /\ read_file_content(FS[file_path], DefaultMaxSize) # <<>>
    /\ vectorize_content(read_file_content(FS[file_path], DefaultMaxSize), available).success

\* --------------------------------------------------------- process_batch
ExceptionTypes == {"OSError", "JSONDecodeError", "AttributeError", "TypeError"}

BatchCatchesOSErrorOnly(exc) == exc \in {"OSError", "JSONDecodeError"}

\* except Exception as e
BatchCatches(exc) == exc \in ExceptionTypes

EmptyBatchSummary(elapsed) ==
    [success |-> FALSE, message |-> <<"No files in batch">>, files_processed |-> 0,
     processing_time |-> elapsed]

ErrorSummary(exc, elapsed) ==
    [success |-> FALSE, message |-> <<"Batch processing error:", exc>>,
     files_processed |-> 0, processing_time |-> elapsed]

\* A quotient is kept as <<numerator, denominator>>; the int 0 is <<0, 1>>.
FilesPerSecondNonZeroGuard(processed, total_time) ==
    IF total_time # 0 THEN <<processed, total_time>> ELSE <<0, 1>>

FilesPerSecond(processed, total_time) ==
    IF total_time > 0 THEN <<processed, total_time>> ELSE <<0, 1>>

NormalSummary(processed, failed, languages, total_time) ==
    [success |-> TRUE,
     message |-> <<"Processed", processed, "files,", failed, "failed">>,
     files_processed |-> processed,
     files_failed |-> failed,
     vectors_created |-> processed,
     languages_detected |-> languages,
     processing_time |-> total_time,
     files_per_second |-> FilesPerSecond(processed, total_time)]

NextFailedNotFoundOnly(r, failed) ==
    IF ~r.success /\ r.error[1] = "File not found:" THEN failed + 1 ELSE failed

NextProcessed(r, processed) == IF r.success THEN processed + 1 ELSE processed

NextFailed(r, failed) == IF r.success THEN failed ELSE failed + 1

\* result.get("language", "unknown")
GetLanguage(r) == IF "language" \in DOMAIN r THEN r.language ELSE "unknown"

NextLanguagesAlways(r, languages) == languages \cup {GetLanguage(r)}

NextLanguages(r, languages) ==
    IF r.success THEN languages \cup {GetLanguage(r)} ELSE languages

\* batch_data.get("files", [])
GetFiles(m) == IF m.kind = "nofiles" THEN <<>> ELSE m.files

NotFilesKeyOnly(m) == m.kind = "nofiles"

\* not files
NotFiles(m) == m.kind # "scalar" /\ GetFiles(m) = <<>>

\* The exception raised before the loop, "" when none: makedirs, open, json.load,
\* batch_data.get on a document that is no object, len() of a number.
LoadException(m, makedirs_fails) ==
    CASE makedirs_fails -> "OSError"
      [] m.kind \in {"missing", "unreadable"} -> "OSError"
      [] m.kind = "malformed" -> "JSONDecodeError"
      [] m.kind = "notdict" -> "AttributeError"
      [] m.kind = "scalar" -> "TypeError"
      [] OTHER -> ""

\* ------------------------------------------------------------------ main
ExitCodeAlwaysZero(res) == 0

ExitCode(res) == IF res.success THEN 0 ELSE 1

\* ---------------------------------------------------------------- state
\* manifest: the batch file named on the command line.  kind says what is at that
\* path: nothing ("missing"), something open() rejects ("unreadable"), text that
\* is no JSON ("malformed"), a JSON document that is no object ("notdict"), an
\* object without "files" ("nofiles"), one whose "files" is a number ("scalar"),
\* one whose "files" is a list ("list").
Manifests ==
    {[kind |-> k, files |-> <<>>] :
        k \in {"missing", "unreadable", "malformed", "notdict", "nofiles", "scalar"}}
    \cup {[kind |-> "list", files |-> f] : f \in SeqsUpTo(Entries, MaxFiles)}

EmptyDir == [n \in {} |-> Truncated]

\* The output directory before the run: empty, or holding what an interrupted
\* earlier run left of an artifact.
InitialDirs == {EmptyDir, WriteFile(EmptyDir, output_filename(0, "d1/a.py"), Truncated)}

RdIdle == [bytes |-> <<>>, max_size |-> 0, done |-> FALSE, content |-> <<>>]

Locals ==
    /\ start_time = 0
    /\ idx = 0
    /\ processed_count = 0
    /\ failed_count = 0
    /\ languages_detected = {}
    /\ results = <<>>
    /\ calls = <<>>
    /\ result = None
    /\ stdout = <<>>
    /\ exitcode = -1
    /\ raised = ""
    /\ opens = 0

Init ==
    /\ manifest \in Manifests
    /\ deps \in BOOLEAN
    /\ seed \in Seeds
    /\ run = 1
    /\ pc = "start"
    /\ Locals
    /\ outdir \in InitialDirs
    /\ names_before = {}
    /\ faults = 0
    /\ rd = RdIdle

\* main, lines 245-247: the batch file does not exist.
main_not_found ==
    /\ pc = "start"
    /\ manifest.kind = "missing"
    /\ exitcode' = 1
    /\ pc' = "exited"
    /\ UNCHANGED <<manifest, deps, seed, run, start_time, idx, processed_count,
                   failed_count, languages_detected, results, calls, result, stdout,
                   outdir, names_before, raised, opens, faults, rd>>

\* What process_batch does with an exception raised at clock reading t1.  Its
\* local start_time is gone once it returns.
Caught(exc, t0, t1) ==
    /\ start_time' = 0
    /\ IF BatchCatches(exc)
       THEN /\ result' = ErrorSummary(exc, t1 - t0)
            /\ pc' = "returned"
            /\ exitcode' = exitcode
       ELSE /\ result' = None
            /\ pc' = "crashed"
            /\ exitcode' = 1

\* main calls process_batch; lines 176-201: up to the start of the loop.
process_batch_begin ==
    /\ pc = "start"
    /\ manifest.kind # "missing"
    /\ \E t0 \in Times, t1 \in Times, makedirs_fails \in BOOLEAN :
        /\ makedirs_fails => faults < MaxFaults
        /\ faults' = IF makedirs_fails THEN faults + 1 ELSE faults
        /\ LET exc == LoadException(manifest, makedirs_fails)
           IN  /\ raised' = exc
               /\ IF exc # ""
                  THEN Caught(exc, t0, t1)
                  ELSE IF NotFiles(manifest)
                  THEN /\ result' = EmptyBatchSummary(t1 - t0)
                       /\ pc' = "returned"
                       /\ start_time' = 0
                       /\ exitcode' = exitcode
                  ELSE /\ result' = result
                       /\ pc' = "loop"
                       /\ start_time' = t0
                       /\ exitcode' = exitcode
    /\ UNCHANGED <<manifest, deps, seed, run, idx, processed_count, failed_count,
                   languages_detected, results, calls, stdout, outdir, names_before,
                   opens, rd>>

\* One iteration of the loop, lines 203-211, process_file included.
process_batch_loop ==
    /\ pc = "loop"
    /\ idx < Len(GetFiles(manifest))
    /\ LET file_path == GetFiles(manifest)[idx + 1]
       IN  \E fault \in FaultKinds, t1 \in Times :
            /\ fault # "none" => (faults < MaxFaults /\ ReachesWrite(file_path, deps))
            /\ faults' = IF fault # "none" THEN faults + 1 ELSE faults
            /\ LET o == process_file(file_path, outdir, seed, deps, fault)
               IN  /\ calls' = Append(calls, file_path)
                   /\ outdir' = o.dir
                   /\ opens' = IF o.opened THEN opens + 1 ELSE opens
                   /\ raised' = o.raised
                   /\ IF o.raised # ""
                      THEN /\ Caught(o.raised, start_time, t1)
                           /\ UNCHANGED <<idx, results, processed_count, failed_count,
                                          languages_detected>>
                      ELSE /\ results' = Append(results, o.ret)
                           /\ processed_count' = NextProcessed(o.ret, processed_count)
                           /\ failed_count' = NextFailed(o.ret, failed_count)
                           /\ languages_detected' = NextLanguages(o.ret, languages_detected)
                           /\ idx' = idx + 1
                           /\ UNCHANGED <<result, pc, exitcode, start_time>>
    /\ UNCHANGED <<manifest, deps, seed, run, stdout, names_before, rd>>

\* Lines 213-224: the loop is over.
process_batch_finish ==
    /\ pc = "loop"
    /\ idx = Len(GetFiles(manifest))
    /\ \E t1 \in Times :
        result' = NormalSummary(processed_count, failed_count, languages_detected,
                                t1 - start_time)
    /\ pc' = "returned"
    /\ start_time' = 0
    /\ UNCHANGED <<manifest, deps, seed, run, idx, processed_count,
                   failed_count, languages_detected, results, calls, stdout, exitcode,
                   outdir, names_before, raised, opens, faults, rd>>

\* main, lines 252-255: print the summary and return the exit status.
main_print ==
    /\ pc = "returned"
    /\ stdout' = Append(stdout, result)
    /\ exitcode' = ExitCode(result)
    /\ pc' = "exited"
    /\ UNCHANGED <<manifest, deps, seed, run, start_time, idx, processed_count,
                   failed_count, languages_detected, results, calls, result, outdir,
                   names_before, raised, opens, faults, rd>>

\* The script is run again on the same manifest and output directory: a new
\* process, with its own string-hash seed.
start_process ==
    /\ pc \in {"exited", "crashed"}
    /\ run < MaxRuns
    /\ run' = run + 1
    /\ seed' \in Seeds
    /\ pc' = "start"
    /\ start_time' = 0
    /\ idx' = 0
    /\ processed_count' = 0
    /\ failed_count' = 0
    /\ languages_detected' = {}
    /\ results' = <<>>
    /\ calls' = <<>>
    /\ result' = None
    /\ stdout' = <<>>
    /\ exitcode' = -1
    /\ raised' = ""
    /\ opens' = 0
    /\ names_before' = DOMAIN outdir
    /\ UNCHANGED <<manifest, deps, outdir, faults, rd>>

Next ==
    \/ main_not_found
    \/ process_batch_begin
    \/ process_batch_loop
    \/ process_batch_finish
    \/ main_print

\* One invocation of the script.
Spec == Init /\ [][Next]_vars

NextRerun ==
    \/ Next
    \/ start_process

\* Up to MaxRuns invocations on the same manifest and output directory.
SpecRerun == Init /\ [][NextRerun]_vars

\* ------------------------------------------- read_file_content on its own
ReadInputs ==
    {[bytes |-> b, max_size |-> m, done |-> FALSE, content |-> <<>>] :
        b \in SeqsUpTo(Units, MaxLen), m \in 1..MaxSize}

InitRead ==
    /\ manifest = [kind |-> "missing", files |-> <<>>]
    /\ deps = FALSE
    /\ seed = 0
    /\ run = 1
    /\ pc = "start"
    /\ Locals
    /\ outdir = EmptyDir
    /\ names_before = {}
    /\ faults = 0
    /\ rd \in ReadInputs

read_call ==
    /\ ~rd.done
    /\ rd' = [rd EXCEPT !.done = TRUE,
                        !.content = read_file_content(
                            [exists |-> TRUE, readable |-> TRUE, bytes |-> rd.bytes],
                            rd.max_size)]
    /\ UNCHANGED <<manifest, deps, seed, run, pc, start_time, idx, processed_count,
                   failed_count, languages_detected, results, calls, result, stdout,
                   exitcode, outdir, names_before, raised, opens, faults>>

NextRead == read_call

SpecRead == InitRead /\ [][NextRead]_vars

\* ---------------------------------------------------------------- claims
HasResult == "success" \in DOMAIN result

NormalResult == "files_failed" \in DOMAIN result

Files == GetFiles(manifest)

Successes == {i \in 1..Len(results) : results[i].success}

DumpFailures ==
    {i \in 1..Len(results) : ~results[i].success /\ results[i].error = <<"OSError: write">>}

\* The entries of the manifest that name no existing file.
Missing == {i \in 1..Len(Files) : IsStr(Files[i]) /\ ~FS[Files[i]].exists}

\* C1 as stated: whenever process_batch returns on a non-empty file list, every
\* entry was passed to process_file once, in order, and files_processed +
\* files_failed is the number of entries.
C1_Original ==
    (HasResult /\ manifest.kind = "list" /\ Len(Files) > 0 /\ faults = 0) =>
        /\ calls = Files
        /\ NormalResult
        /\ result.files_processed + result.files_failed = Len(Files)

\* C1 amended: at every loop iteration the entries visited so far were passed to
\* process_file once each, in manifest order, and each incremented exactly one
\* counter (processed_count + failed_count = entries visited); whenever
\* process_batch returns its normal summary, files_processed + files_failed is
\* the number of entries, duplicates counted separately.  When an entry makes
\* process_file raise, the calls made are a prefix of the list ending at that
\* entry and the error summary carries no files_failed.
C1_CountersPartition ==
    /\ pc = "loop" =>
        /\ calls = SubSeq(Files, 1, idx)
        /\ Len(results) = idx
        /\ processed_count = Cardinality(Successes)
        /\ failed_count = idx - Cardinality(Successes)
        /\ processed_count + failed_count = idx
    /\ NormalResult =>
        /\ calls = Files
        /\ Len(results) = Len(Files)
        /\ result.files_processed = Cardinality(Successes)
        /\ result.files_processed + result.files_failed = Len(Files)
    /\ (HasResult /\ ~NormalResult /\ calls # <<>>) =>
        /\ calls = SubSeq(Files, 1, Len(calls))
        /\ ~IsStr(calls[Len(calls)])
        /\ \A i \in 1..(Len(calls) - 1) : IsStr(calls[i])

C1_Witness ==
    /\ pc = "exited"
    /\ NormalResult
    /\ Len(Files) = 2
    /\ Files[1] = Files[2]
    /\ result.files_processed = 1
    /\ result.files_failed = 1

\* C2 as stated: an empty or absent file list gives files_processed = 0 and
\* success = true, without any call of process_file.
C2_Original ==
    (HasResult /\ raised = "" /\ NotFiles(manifest)) =>
        /\ result.success = TRUE
        /\ result.files_processed = 0
        /\ calls = <<>>

\* C2 amended: an empty or absent file list gives the summary "No files in
\* batch" with files_processed = 0 and success = false, process_file is never
\* called and nothing is written.
C2_EmptyBatch ==
    (HasResult /\ raised = "" /\ Files = <<>> /\ manifest.kind \in {"nofiles", "list"}) =>
        /\ result.success = FALSE
        /\ result.message = <<"No files in batch">>
        /\ result.files_processed = 0
        /\ ~NormalResult
        /\ calls = <<>>
        /\ opens = 0

C2_Witness ==
    /\ pc = "exited"
    /\ manifest = [kind |-> "list", files |-> <<>>]
    /\ raised = ""
    /\ stdout = <<EmptyBatchSummary(result.processing_time)>>

\* C3 as stated: with N entries of which K do not exist, files_processed = N - K
\* and files_failed = K, and every detected language is that of a processed path.
C3_Original ==
    NormalResult =>
        /\ result.files_processed = Len(Files) - Cardinality(Missing)
        /\ result.files_failed = Cardinality(Missing)
        /\ result.languages_detected = {detect_language(Files[i]) : i \in Successes}

\* C3 amended: with N entries of which K do not exist, every missing entry is
\* counted as failed, so files_failed >= K and files_processed <= N - K, with
\* equality exactly when every existing entry was read, vectorized and written;
\* files_processed = N - files_failed; and languages_detected is the set of the
\* detected languages of the processed entries.
C3_MissingAreFailures ==
    NormalResult =>
        /\ \A i \in Missing :
            results[i] = [success |-> FALSE, error |-> <<"File not found:", Files[i]>>]
        /\ result.files_failed >= Cardinality(Missing)
        /\ result.files_processed <= Len(Files) - Cardinality(Missing)
        /\ result.files_processed = Len(Files) - result.files_failed
        /\ (result.files_failed = Cardinality(Missing)) <=>
             (\A i \in 1..Len(Files) : i \in Missing \/ results[i].success)
        /\ result.languages_detected = {detect_language(Files[i]) : i \in Successes}

C3_Witness ==
    /\ pc = "exited"
    /\ NormalResult
    /\ Files = <<"d1/a.py", "missing.rs">>
    /\ result.files_processed = 1
    /\ result.files_failed = 1
    /\ result.languages_detected = {"python"}

\* C4: the exit code is 1 when the manifest file does not exist and on every
\* batch failure (malformed manifest, empty file list, exception), and is 0
\* exactly when the summary's success flag is true.
C4_ExitCode ==
    pc = "exited" =>
        /\ exitcode \in {0, 1}
        /\ (exitcode = 0) <=> (HasResult /\ result.success)
        /\ manifest.kind = "missing" => exitcode = 1
        /\ (raised # "" \/ NotFiles(manifest)) => exitcode = 1

C4_Witness ==
    /\ pc = "exited"
    /\ exitcode = 1
    /\ manifest.kind = "malformed"
    /\ HasResult
    /\ result.success = FALSE

\* C5 as stated: every invocation that ends has written exactly one line of
\* JSON to standard output.
C5_OneLine == pc = "exited" => Len(stdout) = 1

\* C6: process_batch never raises: every exception raised in it (makedirs,
\* loading or parsing the manifest, a file list that is no list, process_file
\* on a malformed entry) is returned as a summary with success = false,
\* files_processed = 0 and a message starting with "Batch processing error:".
C6_NeverRaises ==
    /\ pc # "crashed"
    /\ raised # "" =>
        /\ HasResult
        /\ result.success = FALSE
        /\ result.files_processed = 0
        /\ result.message = <<"Batch processing error:", raised>>

C6_Witness ==
    /\ pc = "exited"
    /\ raised = "TypeError"
    /\ Len(calls) = 2
    /\ ~IsStr(calls[2])
    /\ processed_count = 1

\* C7 as stated: the artifact name is a function of the path alone, so running
\* the same manifest again on the same output directory leaves the set of
\* artifact names unchanged.
C7_StableNames ==
    /\ \A n1 \in DOMAIN outdir, n2 \in DOMAIN outdir :
        ("file" \in DOMAIN outdir[n1] /\ "file" \in DOMAIN outdir[n2]
            /\ outdir[n1].file = outdir[n2].file) => n1 = n2
    /\ (pc = "exited" /\ run > 1 /\ faults = 0) => DOMAIN outdir = names_before

\* The text of the first n bytes of a file: the characters that fit whole, and a
\* replacement character for one that is cut.
RECURSIVE FirstBytes(_, _)
FirstBytes(bytes, n) ==
    IF bytes = <<>> \/ n <= 0 THEN <<>>
    ELSE IF ByteLen(Head(bytes)) <= n
    THEN <<DecodeUnit(Head(bytes))>> \o FirstBytes(Tail(bytes), n - ByteLen(Head(bytes)))
    ELSE <<"uFFFD">>

\* C8 as stated: a file larger than max_size bytes is returned as the text of
\* exactly its first max_size bytes, whatever its characters; a file of at most
\* max_size bytes is returned whole.
C8_ByteTruncation ==
    rd.done =>
        IF getsize(rd.bytes) > rd.max_size
        THEN rd.content = FirstBytes(rd.bytes, rd.max_size)
        ELSE rd.content = Decode(rd.bytes)

\* C9: in the normal summary files_per_second is never negative, is 0 when the
\* elapsed time is not positive, and otherwise is files_processed divided by
\* the elapsed time; no division by zero occurs.
C9_Throughput ==
    NormalResult =>
        /\ result.files_per_second[1] >= 0
        /\ result.files_per_second[2] > 0
        /\ result.processing_time <= 0 => result.files_per_second = <<0, 1>>
        /\ result.processing_time > 0 =>
             result.files_per_second = <<result.files_processed, result.processing_time>>

C9_Witness ==
    /\ pc = "exited"
    /\ NormalResult
    /\ result.files_processed > 0
    /\ result.processing_time < 0
    /\ result.files_per_second = <<0, 1>>

\* C10 as stated: process_file touches the output directory if and only if it
\* returns success, so the number of artifact writes is the number of processed
\* files, and an empty or failed batch writes no artifact.
C10_Original ==
    /\ opens = processed_count
    /\ (HasResult /\ ~result.success) => opens = 0
    /\ NormalResult => opens = result.files_processed

\* C10 amended: process_file returns success only after writing the whole
\* artifact, and it creates or modifies an artifact exactly when it returns
\* success or when json.dump fails after the output file was opened (the file
\* is then left created or truncated); file not found, empty or unreadable
\* content, vectorization failure and a failing open leave the output directory
\* unchanged.  After a normal batch the number of completed artifact writes is
\* files_processed = vectors_created; an empty-list batch writes nothing; a
\* batch that ends in an exception keeps the artifacts written before it.
C10_WritesState ==
    /\ opens = processed_count + Cardinality(DumpFailures)
    /\ \A i \in Successes :
        /\ results[i].output_file \in DOMAIN outdir
        /\ results[i].output_file = output_filename(seed, Files[i])
    /\ NormalResult =>
        /\ result.vectors_created = result.files_processed
        /\ opens - Cardinality(DumpFailures) = result.files_processed
    /\ (HasResult /\ raised = "" /\ ~NormalResult) => opens = 0

C10_Step ==
    (Len(calls') = Len(calls) + 1) =>
        LET file_path == calls'[Len(calls')]
            returned == Len(results') = Len(results) + 1
            r == results'[Len(results')]
        IN  /\ (returned /\ r.success) =>
                /\ opens' = opens + 1
                /\ outdir'[r.output_file].file = file_path
            /\ (returned /\ ~r.success /\ r.error # <<"OSError: write">>) =>
                /\ opens' = opens
                /\ outdir' = outdir
            /\ (returned /\ ~r.success /\ r.error = <<"OSError: write">>) =>
                /\ opens' = opens + 1
                /\ outdir'[output_filename(seed, file_path)] = Truncated
            /\ ~returned => (opens' = opens /\ outdir' = outdir)

C10_Writes == []C10_WritesState /\ [][C10_Step]_vars

C10_Witness ==
    /\ pc = "exited"
    /\ NormalResult
    /\ Files = <<"d1/a.py", "d2/a.py">>
    /\ DumpFailures = {1}
    /\ result.files_processed = 1
    /\ opens = 2

====
